---- MODULE Spec2Model ----
(***************************************************************************)
(* Model of dataclean.py: a Streamlit page that keeps one DataFrame in     *)
(* st.session_state.data and applies cleaning operations to it.  Every     *)
(* user interaction re-executes the script from the top; a button's        *)
(* handler runs inside the re-execution that the click triggers.           *)
(*                                                                         *)
(* A DataFrame is a record                                                 *)
(*   [columns : sequence of names, dtypes : sequence of dtypes,            *)
(*    rows : sequence of rows, each a sequence of cells]                   *)
(* so that len(df) = Len(df.rows) also for a frame without columns (drop   *)
(* keeps the index).  A numeric cell is the rational n/d in lowest terms,  *)
(* a text cell is [s |-> string], and the missing marker is NaN.           *)
(***************************************************************************)
EXTENDS Integers, Sequences, FiniteSets, TLC

VARIABLES in_session, data, outcome

vars == <<in_session, data, outcome>>

----------------------------------------------------------------------------
(* Bounds of the model *)

MaxRows == 3

Columns == <<"A", "B">>

NumVals == {1, 3}

TextVals == {"x"}

----------------------------------------------------------------------------
(* Cells *)

NaN == [n |-> 0, d |-> 0]

Num(v) == [n |-> v, d |-> 1]

Str(s) == [s |-> s]

isnull(c) == c = NaN

RECURSIVE GCD(_, _)
GCD(a, b) == IF b = 0 THEN a ELSE GCD(b, a % b)

Frac(n, d) == LET g == GCD(n, d) IN [n |-> n \div g, d |-> d \div g]

Add(a, b) == Frac(a.n * b.d + b.n * a.d, a.d * b.d)

Range(s) == {s[i] : i \in 1..Len(s)}

----------------------------------------------------------------------------
(* DataFrame accessors *)

len(df) == Len(df.rows)

ncols(df) == Len(df.columns)

column(df, i) == [r \in 1..len(df) |-> df.rows[r][i]]

empty(df) == ncols(df) = 0 \/ len(df) = 0

EmptyFrame == [columns |-> <<>>, dtypes |-> <<>>, rows |-> <<>>]

----------------------------------------------------------------------------
(* The loader: pd.read_csv / pd.read_excel, booleans rendered as text.     *)
(* A decoded file has at least one column; a column without any value is   *)
(* inferred as float64 when there are rows and as object when there are    *)
(* none.                                                                   *)

CellsOf(dtype) ==
    IF dtype = "number" THEN {Num(v) : v \in NumVals} \cup {NaN}
    ELSE {Str(s) : s \in TextVals} \cup {NaN}

RowsOf(dt) ==
    {r \in [1..Len(dt) -> UNION {CellsOf(k) : k \in {"number", "object"}}] :
        \A i \in 1..Len(dt) : r[i] \in CellsOf(dt[i])}

Inferred(df) ==
    \A i \in 1..ncols(df) :
        /\ len(df) = 0 => df.dtypes[i] = "object"
        /\ (len(df) > 0 /\ \A r \in 1..len(df) : isnull(df.rows[r][i]))
              => df.dtypes[i] = "number"

Tables ==
    {df \in UNION { UNION { { [columns |-> SubSeq(Columns, 1, nc),
                               dtypes  |-> dt,
                               rows    |-> rs] :
                                 rs \in [1..nr -> RowsOf(dt)] } :
                             dt \in [1..nc -> {"number", "object"}] } :
                     nc \in 1..Len(Columns), nr \in 0..MaxRows } :
        Inferred(df)}

(* Files uploaded in place of the first one while the session goes on. *)
ReUploads == {df \in Tables : ncols(df) = 1 /\ len(df) <= 1}

----------------------------------------------------------------------------
(* Session state *)

(* Variant: the table is re-seeded from the upload on every run. *)
Initialize_reseed(has, cur, new) == new

Initialize(has, cur, new) == IF ~has THEN new ELSE cur

----------------------------------------------------------------------------
(* Diagnostics, computed from the session table on every run *)

RECURSIVE Sum(_, _)
Sum(f, n) == IF n = 0 THEN 0 ELSE Sum(f, n - 1) + f[n]

(* df.isnull().sum(): per column, the number of missing cells *)
missing_count(df) ==
    [i \in 1..ncols(df) |->
        Sum([r \in 1..len(df) |-> IF isnull(df.rows[r][i]) THEN 1 ELSE 0], len(df))]

(* (count / len * 100).round(2), in hundredths; 0/0 is NaN *)
round2(count, length) ==
    IF length = 0 THEN NaN
    ELSE LET q   == (count * 10000) \div length
             rem == (count * 10000) % length
             up  == 2 * rem > length \/ (2 * rem = length /\ q % 2 = 1)
         IN  [n |-> IF up THEN q + 1 ELSE q, d |-> 100]

(* Variant: the report keeps the columns without missing cells. *)
missing_data_unfiltered(df) ==
    LET mc == missing_count(df)
    IN  [i \in 1..ncols(df) |->
            [Column            |-> df.columns[i],
             MissingCount      |-> mc[i],
             MissingPercentage |-> round2(mc[i], len(df))]]

missing_data(df) ==
    LET mc == missing_count(df)
        all == [i \in 1..ncols(df) |->
                   [Column            |-> df.columns[i],
                    MissingCount      |-> mc[i],
                    MissingPercentage |-> round2(mc[i], len(df))]]
        Positive(e) == e.MissingCount > 0
    IN  SelectSeq(all, Positive)

(* [col for col in df.columns if df[col].isnull().all()] *)
all_missing_cols(df) ==
    LET idx == [i \in 1..ncols(df) |-> i]
        AllNull(i) == \A r \in 1..len(df) : isnull(df.rows[r][i])
        keep == SelectSeq(idx, AllNull)
    IN  [k \in 1..Len(keep) |-> df.columns[keep[k]]]

(* Variant: the all-missing check is made whatever the report holds. *)
warned_cols_unguarded(df) == all_missing_cols(df)

(* The columns the page warns about: the check sits in the branch taken    *)
(* only when the missing-value report is not empty.                        *)
warned_cols(df) ==
    IF Len(missing_data(df)) = 0 THEN <<>> ELSE all_missing_cols(df)

(* Variant: keep='first' marks the rows that have an equal later row. *)
duplicated_keep_last(df, keep) ==
    IF empty(df) THEN <<>>
    ELSE [r \in 1..len(df) |->
            IF keep = "first"
            THEN \E q \in (r + 1)..len(df) : df.rows[q] = df.rows[r]
            ELSE \E q \in 1..len(df) : q # r /\ df.rows[q] = df.rows[r]]

(* Variant: a row holding a missing cell is never equal to another row. *)
duplicated_nan_distinct(df, keep) ==
    LET Same(q, r) == /\ df.rows[q] = df.rows[r]
                      /\ \A i \in 1..ncols(df) : ~isnull(df.rows[r][i])
    IN  IF empty(df) THEN <<>>
        ELSE [r \in 1..len(df) |->
                IF keep = "first"
                THEN \E q \in 1..(r - 1) : Same(q, r)
                ELSE \E q \in 1..len(df) : q # r /\ Same(q, r)]

(* df.duplicated(keep): an empty frame (no rows or no columns) yields an   *)
(* empty mask; missing cells compare equal to missing cells.               *)
duplicated(df, keep) ==
    IF empty(df) THEN <<>>
    ELSE [r \in 1..len(df) |->
            IF keep = "first"
            THEN \E q \in 1..(r - 1) : df.rows[q] = df.rows[r]
            ELSE \E q \in 1..len(df) : q # r /\ df.rows[q] = df.rows[r]]

duplicate_count(df) ==
    LET m == duplicated(df, "first")
    IN  Sum([r \in 1..Len(m) |-> IF m[r] THEN 1 ELSE 0], Len(m))

(* df[mask]: the rows whose mask entry is true, in order *)
select_rows(df, mask) ==
    LET idx == [r \in 1..len(df) |-> r]
        Keep(r) == mask[r]
        kept == SelectSeq(idx, Keep)
    IN  [df EXCEPT !.rows = [k \in 1..Len(kept) |-> df.rows[kept[k]]]]

duplicates(df) == select_rows(df, duplicated(df, "none"))

(* The duplicate preview: built only when duplicate_count is not 0 *)
preview(df) ==
    IF duplicate_count(df) = 0 THEN <<>> ELSE duplicates(df).rows

----------------------------------------------------------------------------
(* Cleaning operations *)

(* Variant: only the first of the named columns is removed. *)
drop_first_only(df, names) ==
    LET idx == [i \in 1..ncols(df) |-> i]
        Keep(i) == names = <<>> \/ df.columns[i] # names[1]
        kept == SelectSeq(idx, Keep)
    IN  [columns |-> [k \in 1..Len(kept) |-> df.columns[kept[k]]],
         dtypes  |-> [k \in 1..Len(kept) |-> df.dtypes[kept[k]]],
         rows    |-> [r \in 1..len(df) |->
                        [k \in 1..Len(kept) |-> df.rows[r][kept[k]]]]]

(* df.drop(columns=names): the index, hence the row count, is kept *)
drop(df, names) ==
    LET idx == [i \in 1..ncols(df) |-> i]
        Keep(i) == df.columns[i] \notin Range(names)
        kept == SelectSeq(idx, Keep)
    IN  [columns |-> [k \in 1..Len(kept) |-> df.columns[kept[k]]],
         dtypes  |-> [k \in 1..Len(kept) |-> df.dtypes[kept[k]]],
         rows    |-> [r \in 1..len(df) |->
                        [k \in 1..Len(kept) |-> df.rows[r][kept[k]]]]]

(* df.dropna(): the rows without any missing cell *)
dropna(df) ==
    select_rows(df, [r \in 1..len(df) |->
                        \A i \in 1..ncols(df) : ~isnull(df.rows[r][i])])

RECURSIVE SumCells(_, _)
SumCells(f, n) ==
    IF n = 0 THEN [n |-> 0, d |-> 1]
    ELSE IF isnull(f[n]) THEN SumCells(f, n - 1)
    ELSE Add(SumCells(f, n - 1), f[n])

(* Variant: the sum of the column is used in place of its mean. *)
mean_sum(df, i) ==
    LET col == column(df, i)
        cnt == Cardinality({r \in 1..len(df) : ~isnull(col[r])})
    IN  IF cnt = 0 THEN NaN ELSE SumCells(col, len(df))

(* df[col].mean(): missing cells are skipped; NaN when nothing is left *)
mean(df, i) ==
    LET col == column(df, i)
        cnt == Cardinality({r \in 1..len(df) : ~isnull(col[r])})
        tot == SumCells(col, len(df))
    IN  IF cnt = 0 THEN NaN ELSE Frac(tot.n, tot.d * cnt)

(* numeric columns .fillna(mean), object columns .fillna('Unknown') *)
fillna(df) ==
    [df EXCEPT !.rows =
        [r \in 1..len(df) |->
            [i \in 1..ncols(df) |->
                IF ~isnull(df.rows[r][i]) THEN df.rows[r][i]
                ELSE IF df.dtypes[i] = "number" THEN mean(df, i)
                ELSE Str("Unknown")]]]

(* Variant: one call removes only the last of the duplicated rows. *)
drop_duplicates_last_only(df) ==
    LET m == duplicated(df, "first")
        dups == {r \in 1..Len(m) : m[r]}
    IN  IF dups = {} THEN df
        ELSE LET last == CHOOSE r \in dups : \A q \in dups : q <= r
             IN  select_rows(df, [r \in 1..len(df) |-> r # last])

(* df.drop_duplicates(keep='first'): an empty frame is returned as it is *)
drop_duplicates(df) ==
    IF empty(df) THEN df
    ELSE LET m == duplicated(df, "first")
         IN  select_rows(df, [r \in 1..len(df) |-> ~m[r]])

----------------------------------------------------------------------------
(* Button handlers: the new session table and the status the handler shows *)

RemoveEmptyColumnsOffered(df) == warned_cols(df) # <<>>

MissingActionsOffered(df) == Len(missing_data(df)) # 0

RemoveDuplicatesOffered(df) == duplicate_count(df) # 0

RemoveEmptyColumns(df) ==
    [data |-> drop(df, all_missing_cols(df)), outcome |-> "success: removed empty columns"]

(* The table is replaced first and the row count tested afterwards. *)
DeleteRows(df) ==
    LET new == dropna(df)
    IN  [data    |-> new,
         outcome |-> IF len(new) = 0 THEN "error: would delete all rows"
                     ELSE "success: deleted rows"]

FillMissing(df) ==
    [data |-> fillna(df), outcome |-> "success: filled all missing values"]

RemoveDuplicates(df) ==
    [data |-> drop_duplicates(df), outcome |-> "success: removed duplicates"]

----------------------------------------------------------------------------
Init ==
    /\ in_session = FALSE
    /\ data = EmptyFrame
    /\ outcome = "none"

(* A script run without a button click: a file is uploaded or replaced. *)
Run ==
    \E file \in (IF in_session THEN ReUploads ELSE Tables) :
        /\ in_session' = TRUE
        /\ data' = Initialize(in_session, data, file)
        /\ outcome' = "none"

(* A script run triggered by a click on a button the previous run showed:  *)
(* the session is initialized (a no-op by now), the handler runs where the *)
(* button is declared, and st.rerun() executes the script once more.       *)
ClickRemoveEmptyColumns ==
    \E file \in ReUploads :
        LET cur == Initialize(in_session, data, file)
            res == RemoveEmptyColumns(cur)
        IN  /\ in_session
            /\ RemoveEmptyColumnsOffered(cur)
            /\ in_session' = TRUE
            /\ data' = Initialize(TRUE, res.data, file)
            /\ outcome' = res.outcome

(* On the error path st.stop() ends the run; the table is already replaced. *)
ClickDeleteRows ==
    \E file \in ReUploads :
        LET cur == Initialize(in_session, data, file)
            res == DeleteRows(cur)
        IN  /\ in_session
            /\ MissingActionsOffered(cur)
            /\ in_session' = TRUE
            /\ data' = Initialize(TRUE, res.data, file)
            /\ outcome' = res.outcome

ClickFillMissing ==
    \E file \in ReUploads :
        LET cur == Initialize(in_session, data, file)
            res == FillMissing(cur)
        IN  /\ in_session
            /\ MissingActionsOffered(cur)
            /\ in_session' = TRUE
            /\ data' = Initialize(TRUE, res.data, file)
            /\ outcome' = res.outcome

ClickRemoveDuplicates ==
    \E file \in ReUploads :
        LET cur == Initialize(in_session, data, file)
            res == RemoveDuplicates(cur)
        IN  /\ in_session
            /\ RemoveDuplicatesOffered(cur)
            /\ in_session' = TRUE
            /\ data' = Initialize(TRUE, res.data, file)
            /\ outcome' = res.outcome

Next ==
    \/ Run
    \/ ClickRemoveEmptyColumns
    \/ ClickDeleteRows
    \/ ClickFillMissing
    \/ ClickRemoveDuplicates

Spec == Init /\ [][Next]_vars

----------------------------------------------------------------------------
(* Vocabulary of the properties, stated without the operations above *)

NMissing(df, i) == Cardinality({r \in 1..len(df) : isnull(df.rows[r][i])})

AllMissing(df, i) == \A r \in 1..len(df) : isnull(df.rows[r][i])

EveryRowHasMissing(df) ==
    \A r \in 1..len(df) : \E i \in 1..ncols(df) : isnull(df.rows[r][i])

(* The elements of seq at the positions in K, in increasing position *)
Pick(seq, K) ==
    [k \in 1..Cardinality(K) |->
        seq[CHOOSE r \in K : Cardinality({q \in K : q <= r}) = k]]

FirstOccurrences(rows) ==
    Pick(rows, {r \in 1..Len(rows) : \A q \in 1..(r - 1) : rows[q] # rows[r]})

InDuplicateGroup(rows) ==
    Pick(rows, {r \in 1..Len(rows) : \E q \in 1..Len(rows) : q # r /\ rows[q] = rows[r]})

(* m is the mean of the non-missing cells of column i, all of them whole *)
IsMeanOf(m, df, i) ==
    LET present == {r \in 1..len(df) : ~isnull(df.rows[r][i])}
        total == Sum([r \in 1..len(df) |->
                        IF r \in present THEN df.rows[r][i].n ELSE 0], len(df))
    IN  /\ \A r \in present : df.rows[r][i].d = 1
        /\ m.d > 0
        /\ m.n * Cardinality(present) = total * m.d

FillPost(old, new) ==
    /\ new.columns = old.columns
    /\ new.dtypes = old.dtypes
    /\ len(new) = len(old)
    /\ \A r \in 1..len(old) : \A i \in 1..ncols(old) :
          LET c == old.rows[r][i]
              f == new.rows[r][i]
          IN  /\ ~isnull(c) => f = c
              /\ (isnull(c) /\ old.dtypes[i] = "object") => f = Str("Unknown")
              /\ (isnull(c) /\ old.dtypes[i] = "number" /\ ~AllMissing(old, i))
                    => IsMeanOf(f, old, i)

RemoveEmptyPost(old, new) ==
    LET K == {i \in 1..ncols(old) : ~AllMissing(old, i)}
    IN  /\ new.columns = Pick(old.columns, K)
        /\ new.dtypes = Pick(old.dtypes, K)
        /\ len(new) = len(old)
        /\ \A r \in 1..len(old) : new.rows[r] = Pick(old.rows[r], K)
        /\ \A i \in 1..ncols(new) : \E r \in 1..len(new) : ~isnull(new.rows[r][i])

----------------------------------------------------------------------------
(* C1: when the session table has at least one row and every row has a     *)
(* missing cell, "delete rows with missing values" reports the error and   *)
(* leaves the session table as it was.                                     *)
C1_RejectedDeleteKeepsTable ==
    [][(/\ in_session
        /\ len(data) >= 1
        /\ EveryRowHasMissing(data)
        /\ outcome' = "error: would delete all rows") => data' = data]_vars

(* C2: once the session holds a table, a run never re-seeds it: a step     *)
(* changes the session table only by the cleaning operation it reports,    *)
(* applied to the table held before, whatever file the run loads.          *)
C2_InitializeOnlyOnce ==
    [][in_session =>
        /\ outcome' = "none" => data' = data
        /\ outcome' = "success: removed empty columns"
              => data' = drop(data, all_missing_cols(data))
        /\ outcome' \in {"success: deleted rows", "error: would delete all rows"}
              => data' = dropna(data)
        /\ outcome' = "success: filled all missing values" => data' = fillna(data)
        /\ outcome' = "success: removed duplicates" => data' = drop_duplicates(data)]_vars

C2_Witness ==
    /\ in_session
    /\ outcome = "success: deleted rows"
    /\ data \notin ReUploads

(* C3: filling replaces each missing cell of a numeric column that has a   *)
(* value by the mean of the column's values and each missing text cell by  *)
(* "Unknown", and changes no other cell, nor the rows or the columns.      *)
C3_FillMissing ==
    [][outcome' = "success: filled all missing values" => FillPost(data, data')]_vars

C3_Witness ==
    /\ outcome = "success: filled all missing values"
    /\ \E r \in 1..len(data) : \E i \in 1..ncols(data) : data.rows[r][i] = Num(2)
    /\ \E r \in 1..len(data) : \E i \in 1..ncols(data) : data.rows[r][i] = Str("Unknown")

(* C4: a fill that ends as a plain success leaves no missing cell in a     *)
(* numeric column.                                                         *)
C4_NoSilentNaN ==
    outcome = "success: filled all missing values" =>
        \A i \in 1..ncols(data) :
            data.dtypes[i] = "number" => NMissing(data, i) = 0

(* C5: the missing-value report has exactly one entry for each column with *)
(* a missing cell, none for the other columns, and each entry's count is   *)
(* the column's number of missing cells, at least 1; also with no rows.    *)
C5_MissingReport ==
    in_session =>
        LET md == missing_data(data)
        IN  /\ \A i \in 1..ncols(data) :
                  Cardinality({k \in 1..Len(md) : md[k].Column = data.columns[i]})
                      = IF NMissing(data, i) >= 1 THEN 1 ELSE 0
            /\ \A k \in 1..Len(md) :
                  /\ md[k].MissingCount >= 1
                  /\ \E i \in 1..ncols(data) :
                        /\ md[k].Column = data.columns[i]
                        /\ md[k].MissingCount = NMissing(data, i)

C5_Witness ==
    /\ in_session
    /\ ncols(data) = 2
    /\ Len(missing_data(data)) = 1

(* C6: removing duplicates twice gives what removing them once gives; once *)
(* they are removed the duplicate count is 0 and a further removal leaves  *)
(* the session table unchanged.                                            *)
C6_DropDuplicatesIdempotent ==
    in_session =>
        /\ drop_duplicates(drop_duplicates(data)) = drop_duplicates(data)
        /\ duplicate_count(drop_duplicates(data)) = 0
        /\ outcome = "success: removed duplicates" =>
              /\ duplicate_count(data) = 0
              /\ drop_duplicates(data) = data

C6_Witness ==
    /\ outcome = "success: removed duplicates"
    /\ len(data) >= 2

(* C7, as stated: for every table, drop_duplicates keeps exactly the first *)
(* occurrence of each row value, in the original order.                    *)
C7_FirstOccurrencesAnyTable ==
    in_session => drop_duplicates(data).rows = FirstOccurrences(data.rows)

(* C7, amended: the same for every table that has at least one column; a   *)
(* table without columns is returned with all its rows.                    *)
C7_FirstOccurrences ==
    in_session =>
        /\ ncols(data) >= 1 =>
              /\ drop_duplicates(data).rows = FirstOccurrences(data.rows)
              /\ drop_duplicates(data).columns = data.columns
        /\ ncols(data) = 0 => drop_duplicates(data) = data

C7_Witness ==
    /\ in_session
    /\ ncols(data) >= 1
    /\ duplicate_count(data) >= 1
    /\ len(drop_duplicates(data)) >= 2

(* C9, as stated: for every table, the duplicate count is the number of    *)
(* rows minus the number of distinct rows, and the preview is the rows     *)
(* whose value occurs at least twice, in the original order.               *)
C9_DuplicateReportAnyTable ==
    in_session =>
        /\ duplicate_count(data) = len(data) - Cardinality(Range(data.rows))
        /\ preview(data) = InDuplicateGroup(data.rows)

(* C9, amended: the same for every table that has at least one column; for *)
(* a table without columns the count is 0 and the preview is empty.        *)
C9_DuplicateReport ==
    in_session =>
        /\ ncols(data) >= 1 =>
              /\ duplicate_count(data) = len(data) - Cardinality(Range(data.rows))
              /\ preview(data) = InDuplicateGroup(data.rows)
        /\ ncols(data) = 0 =>
              /\ duplicate_count(data) = 0
              /\ preview(data) = <<>>

C9_Witness ==
    /\ in_session
    /\ duplicate_count(data) = 1
    /\ Len(preview(data)) = 2
    /\ \E r \in 1..len(data) : \E i \in 1..ncols(data) : isnull(data.rows[r][i])

(* C8: "remove empty columns" leaves no all-missing column and keeps every *)
(* other column with its cells, the column order and the row count.        *)
C8_RemoveEmptyColumns ==
    [][outcome' = "success: removed empty columns" => RemoveEmptyPost(data, data')]_vars

C8_Witness ==
    /\ outcome = "success: removed empty columns"
    /\ ncols(data) = 1
    /\ len(data) >= 2

(* C10: a column is reported as all-missing iff all its cells are missing  *)
(* and the table has at least one row; with no rows nothing is reported    *)
(* and "remove empty columns" is not offered.                              *)
C10_AllMissingNeedsRows ==
    in_session =>
        /\ \A i \in 1..ncols(data) :
              data.columns[i] \in Range(warned_cols(data))
                  <=> (len(data) >= 1 /\ AllMissing(data, i))
        /\ len(data) = 0 => ~RemoveEmptyColumnsOffered(data)

C10_Witness ==
    /\ in_session
    /\ len(data) = 0
    /\ ncols(data) >= 1

====
